---- MODULE Spec2Model ----
(***************************************************************************)
(* Model of scripts/blender-batch-rescale.py: the batch driver main(), the *)
(* per-asset step rescale_prop() and the helpers it calls, run against a   *)
(* host (Blender) working scene.                                           *)
(*                                                                         *)
(* Lengths are integers in half-units (2 = 1.0 m), so that the unit cube   *)
(* with corners at +/-0.5 has corners at +/-1.  Scale factors are positive *)
(* integers; float rounding is not modelled.                               *)
(***************************************************************************)
EXTENDS Integers, Sequences, FiniteSets, TLC

\* ------------------------------------------------------------------------
\* Bounds of the model
\* ------------------------------------------------------------------------

\* largest number of entries of SCALE_FACTORS that is explored
MaxEntries == 2

\* largest number of objects one import adds to the scene
MaxObjs == 2

\* ------------------------------------------------------------------------
\* Values
\* ------------------------------------------------------------------------

\* filenames; entry i of the configuration has the i-th name (keys of a dict
\* are unique and keep their authoring order)
Names == 1..MaxEntries

\* the scale factors a configuration entry may carry (scale_factor > 0)
Factors == {2, 3}

Identity3 == << <<1, 0, 0>>, <<0, 1, 0>>, <<0, 0, 1>> >>

\* a quarter turn about the z axis
RotZ90 == << <<0, -1, 0>>, <<1, 0, 0>>, <<0, 0, 1>> >>

\* the unit cube: corners at +/-0.5 on each axis, identity world transform
UnitCube ==
  [verts |-> << <<-1, -1, -1>>, <<1, 1, 1>> >>,
   scale |-> <<1, 1, 1>>, rot |-> Identity3, loc |-> <<0, 0, 0>>]

\* what a GLB file may hold: the unit cube with identity transform, and two
\* objects whose nodes carry a scale, a rotation and a translation
Templates ==
  { UnitCube,
    [verts |-> << <<0, 0, 0>>, <<2, 1, 3>> >>,
     scale |-> <<2, 2, 2>>, rot |-> RotZ90, loc |-> <<1, 0, -1>>],
    [verts |-> << <<-1, 0, 2>>, <<1, 4, 2>>, <<0, -2, 3>> >>,
     scale |-> <<1, 2, 1>>, rot |-> Identity3, loc |-> <<0, 3, 0>>] }

\* an object of the scene: src is the entry it was loaded for (0 for an
\* object the host's scene already held when the script was started),
\* orig the vertex coordinates as imported
MakeObject(t, src) ==
  [src |-> src, orig |-> t.verts, verts |-> t.verts,
   scale |-> t.scale, rot |-> t.rot, loc |-> t.loc]

\* ------------------------------------------------------------------------
\* Vector helpers and get_bounding_dimensions
\* ------------------------------------------------------------------------

RECURSIVE SeqMax(_)
SeqMax(s) ==
  IF Len(s) = 1 THEN s[1]
  ELSE LET m == SeqMax(Tail(s)) IN IF s[1] > m THEN s[1] ELSE m

RECURSIVE SeqMin(_)
SeqMin(s) ==
  IF Len(s) = 1 THEN s[1]
  ELSE LET m == SeqMin(Tail(s)) IN IF s[1] < m THEN s[1] ELSE m

Axis(coords, k) == [i \in 1..Len(coords) |-> coords[i][k]]

\* obj.bound_box: the eight corners of the local axis-aligned box of the mesh
bound_box(obj) ==
  LET lo == [k \in 1..3 |-> SeqMin(Axis(obj.verts, k))]
      hi == [k \in 1..3 |-> SeqMax(Axis(obj.verts, k))]
  IN << <<lo[1], lo[2], lo[3]>>, <<lo[1], lo[2], hi[3]>>,
        <<lo[1], hi[2], hi[3]>>, <<lo[1], hi[2], lo[3]>>,
        <<hi[1], lo[2], lo[3]>>, <<hi[1], lo[2], hi[3]>>,
        <<hi[1], hi[2], hi[3]>>, <<hi[1], hi[2], lo[3]>> >>

\* obj.matrix_world @ Vector(p): translation, rotation and scale of the object
worldify(obj, p) ==
  [r \in 1..3 |->
     obj.loc[r] + obj.rot[r][1] * obj.scale[1] * p[1]
                + obj.rot[r][2] * obj.scale[2] * p[2]
                + obj.rot[r][3] * obj.scale[3] * p[3]]

get_bounding_dimensions(obj) ==
  LET local_coords == bound_box(obj)
      coords == [i \in 1..Len(local_coords) |-> worldify(obj, local_coords[i])]
      x_coords == Axis(coords, 1)
      y_coords == Axis(coords, 2)
      z_coords == Axis(coords, 3)
  IN << SeqMax(x_coords) - SeqMin(x_coords),
        SeqMax(y_coords) - SeqMin(y_coords),
        SeqMax(z_coords) - SeqMin(z_coords) >>

\* ------------------------------------------------------------------------
\* State
\* ------------------------------------------------------------------------

VARIABLES
  SCALE_FACTORS,   \* the configuration: sequence of [filename, scale_factor]
  SKIP_PROPS,      \* the skip list, a set of filenames
  inputFiles,      \* the configured filenames that exist in INPUT_DIR
  VectorInGlobals, \* whether the namespace the script runs in binds "Vector"
  pc,              \* position of the (single) thread of control
  idx,             \* number of entries of SCALE_FACTORS handled so far
  scene,           \* bpy.context.scene.objects
  objects,         \* rescale_prop's local list: positions of scene objects
  success_count,
  failed_count,
  skipped_count,
  dims,            \* the dimensions last printed by rescale_prop
  calls,           \* per entry: how often each callee was invoked for it
  outcome,         \* per entry: how the handling of it ended
  summary          \* the counts printed by the final summary

vars == << SCALE_FACTORS, SKIP_PROPS, inputFiles, VectorInGlobals, pc, idx,
           scene, objects, success_count, failed_count, skipped_count, dims,
           calls, outcome, summary >>

config == << SCALE_FACTORS, SKIP_PROPS, inputFiles, VectorInGlobals >>
counters == << success_count, failed_count, skipped_count >>

N == Len(SCALE_FACTORS)

\* the entry the loop is at
cur == idx + 1
filename == SCALE_FACTORS[cur].filename
scale_factor == SCALE_FACTORS[cur].scale_factor

NoCalls == [rescale_prop |-> 0, clear_scene |-> 0, import_glb |-> 0,
            import_raised |-> 0, transform_apply |-> 0, measure |-> 0,
            export_glb |-> 0]

Called(op) == calls' = [calls EXCEPT ![cur][op] = @ + 1]

CalledAndRaised(op, raised) ==
  calls' = [calls EXCEPT ![cur][op] = @ + 1, ![cur][raised] = @ + 1]

Configs ==
  UNION { [1..n -> Factors] : n \in 0..MaxEntries }

Init ==
  /\ \E fs \in Configs :
       SCALE_FACTORS =
         [i \in DOMAIN fs |-> [filename |-> i, scale_factor |-> fs[i]]]
  /\ SKIP_PROPS \in SUBSET Names
  /\ inputFiles \in SUBSET (1..N)
  /\ VectorInGlobals \in BOOLEAN
  /\ pc = "loop"
  /\ idx = 0
  /\ scene \in { <<>>, << MakeObject(UnitCube, 0) >> }
  /\ objects = <<>>
  /\ success_count = 0
  /\ failed_count = 0
  /\ skipped_count = 0
  /\ dims = <<>>
  /\ calls = [i \in 1..N |-> NoCalls]
  /\ outcome = [i \in 1..N |-> "pending"]
  /\ summary = <<>>

\* ------------------------------------------------------------------------
\* main(): the branches of the loop body
\* ------------------------------------------------------------------------

IsSkipped_Never(name) == FALSE

IsSkipped(name) == name \in SKIP_PROPS

CountSuccess_AlsoFailed ==
  /\ success_count' = success_count + 1
  /\ failed_count' = failed_count + 1
  /\ UNCHANGED skipped_count

\* rescale_prop returned True
CountSuccess ==
  /\ success_count' = success_count + 1
  /\ UNCHANGED << failed_count, skipped_count >>

CountFailed_AsSuccess ==
  /\ success_count' = success_count + 1
  /\ UNCHANGED << failed_count, skipped_count >>

\* rescale_prop returned False
CountFailed ==
  /\ failed_count' = failed_count + 1
  /\ UNCHANGED << success_count, skipped_count >>

\* the for loop moves to the next entry
NextEntry(how) ==
  /\ idx' = idx + 1
  /\ pc' = "loop"
  /\ outcome' = [outcome EXCEPT ![cur] = how]

\* rescale_prop returns to main(): its locals are gone
Return(how) ==
  /\ NextEntry(how)
  /\ objects' = <<>>
  /\ dims' = <<>>

\* an exception no handler catches leaves rescale_prop and main
Abort(how) ==
  /\ pc' = "aborted"
  /\ outcome' = [outcome EXCEPT ![cur] = how]
  /\ UNCHANGED << idx, counters >>

Skip ==
  /\ pc = "loop"
  /\ idx < N
  /\ IsSkipped(filename)
  /\ skipped_count' = skipped_count + 1
  /\ NextEntry("skipped")
  /\ UNCHANGED << config, scene, objects, success_count, failed_count, dims,
                  calls, summary >>

\* ------------------------------------------------------------------------
\* rescale_prop(filename, scale_factor)
\* ------------------------------------------------------------------------

FileExists_Unchecked(name) == TRUE

\* os.path.exists(input_path)
FileExists(name) == name \in inputFiles

\* the call, and the check of os.path.exists(input_path)
EnterRescaleProp ==
  /\ pc = "loop"
  /\ idx < N
  /\ ~IsSkipped(filename)
  /\ Called("rescale_prop")
  /\ IF FileExists(filename)
       THEN /\ pc' = "clear"
            /\ UNCHANGED << idx, counters, outcome, objects, dims >>
       ELSE /\ CountFailed
            /\ Return("missing")
  /\ UNCHANGED << config, scene, summary >>

ClearedScene_Kept == scene

\* what clear_scene() leaves in the scene
ClearedScene == <<>>

\* clear_scene(): select_all(action='SELECT') and delete()
ClearScene ==
  /\ pc = "clear"
  /\ Called("clear_scene")
  /\ scene' = ClearedScene
  /\ pc' = "import"
  /\ UNCHANGED << config, idx, objects, counters, dims, outcome, summary >>

\* the objects an import may add: none, or up to MaxObjs of the templates
RECURSIVE Loads(_)
Loads(n) ==
  IF n = 0 THEN { <<>> }
  ELSE Loads(n - 1) \cup
       { Append(s, t) : s \in { l \in Loads(n - 1) : Len(l) = n - 1 },
                        t \in Templates }

Loaded(load) == [i \in 1..Len(load) |-> MakeObject(load[i], cur)]

\* ImportGlb with the except branch falling through instead of returning
ImportGlb_Continue ==
  /\ pc = "import"
  /\ \E load \in Loads(MaxObjs), raises \in BOOLEAN :
       /\ scene' = scene \o Loaded(load)
       /\ IF raises
            THEN CalledAndRaised("import_glb", "import_raised")
            ELSE Called("import_glb")
       /\ pc' = "collect"
       /\ UNCHANGED << idx, counters, outcome >>
  /\ UNCHANGED << config, objects, dims, summary >>

\* import_glb(input_path) inside try/except: the operator adds the file's
\* objects, or raises after having added none or some of them
ImportGlb ==
  /\ pc = "import"
  /\ \E load \in Loads(MaxObjs), raises \in BOOLEAN :
       /\ scene' = scene \o Loaded(load)
       /\ IF raises
            THEN /\ CalledAndRaised("import_glb", "import_raised")
                 /\ CountFailed
                 /\ Return("import_error")
            ELSE /\ Called("import_glb")
                 /\ pc' = "collect"
                 /\ UNCHANGED << idx, counters, outcome, objects, dims >>
  /\ UNCHANGED << config, summary >>

\* objects = [obj for obj in bpy.context.scene.objects]; if not objects
CollectObjects ==
  /\ pc = "collect"
  /\ IF Len(scene) = 0
       THEN /\ CountFailed
            /\ Return("no_objects")
       ELSE /\ objects' = [i \in 1..Len(scene) |-> i]
            /\ pc' = "scale"
            /\ UNCHANGED << idx, counters, outcome, dims >>
  /\ UNCHANGED << config, scene, calls, summary >>

ScaledScene_FirstOnly(objs, f) ==
  [i \in 1..Len(scene) |->
     IF objs[1] = i
       THEN [scene[i] EXCEPT !.scale = <<f, f, f>>]
       ELSE scene[i]]

\* for obj in objects: obj.scale = (scale_factor,) * 3
ScaledScene(objs, f) ==
  [i \in 1..Len(scene) |->
     IF \E j \in 1..Len(objs) : objs[j] = i
       THEN [scene[i] EXCEPT !.scale = <<f, f, f>>]
       ELSE scene[i]]

ScaleObjects ==
  /\ pc = "scale"
  /\ scene' = ScaledScene(objects, scale_factor)
  /\ pc' = "apply"
  /\ UNCHANGED << config, idx, objects, counters, dims, calls, outcome,
                  summary >>

\* transform_apply(scale=True) on one object: the scale is written into the
\* vertex data and the stored scale becomes 1
ApplyScaleTo(obj) ==
  [obj EXCEPT
     !.verts = [v \in 1..Len(obj.verts) |->
                  [k \in 1..3 |-> obj.scale[k] * obj.verts[v][k]]],
     !.scale = <<1, 1, 1>>]

\* select_all(action='SELECT') and transform_apply(..., scale=True)
ApplyScale ==
  /\ pc = "apply"
  /\ Called("transform_apply")
  /\ scene' = [i \in 1..Len(scene) |-> ApplyScaleTo(scene[i])]
  /\ pc' = "measure"
  /\ UNCHANGED << config, idx, objects, counters, dims, outcome, summary >>

\* main_obj = objects[0]; dims = get_bounding_dimensions(main_obj); print.
\* get_bounding_dimensions looks "Vector" up in the module's globals, while
\* main() binds it as a local: the call raises NameError unless the
\* namespace the script is executed in happens to bind it.
Measure ==
  /\ pc = "measure"
  /\ Called("measure")
  /\ IF VectorInGlobals
       THEN /\ dims' = get_bounding_dimensions(scene[objects[1]])
            /\ pc' = "export"
            /\ UNCHANGED << idx, counters, outcome >>
       ELSE /\ Abort("name_error")
            /\ UNCHANGED dims
  /\ UNCHANGED << config, scene, objects, summary >>

\* export_glb(output_path) inside try/except
ExportGlb ==
  /\ pc = "export"
  /\ Called("export_glb")
  /\ \E raises \in BOOLEAN :
       IF raises
         THEN CountFailed /\ Return("export_error")
         ELSE CountSuccess /\ Return("exported")
  /\ UNCHANGED << config, scene, summary >>

\* the summary main() prints after the loop
Summary ==
  /\ pc = "loop"
  /\ idx = N
  /\ summary' = << success_count, failed_count, skipped_count >>
  /\ pc' = "done"
  /\ UNCHANGED << config, idx, scene, objects, counters, dims, calls,
                  outcome >>

Next ==
  \/ Skip
  \/ EnterRescaleProp
  \/ ClearScene
  \/ ImportGlb
  \/ CollectObjects
  \/ ScaleObjects
  \/ ApplyScale
  \/ Measure
  \/ ExportGlb
  \/ Summary

Spec == Init /\ [][Next]_vars


\* ------------------------------------------------------------------------
\* Properties
\* ------------------------------------------------------------------------

Entries == 1..N

\* the entries of the configuration whose filename is in the skip list
SkippedEntries == { i \in Entries : SCALE_FACTORS[i].filename \in SKIP_PROPS }

Failures == {"missing", "import_error", "no_objects", "export_error"}

InRescale == pc \in {"collect", "scale", "apply", "measure", "export"}

\* C1: no per-asset failure aborts the batch: a run of main() never ends
\* inside an entry, and it ends only with every entry of SCALE_FACTORS
\* visited and the final summary printed.
C1_NoFailureAbortsBatch ==
  /\ pc # "aborted"
  /\ pc = "done" => (idx = N /\ summary # <<>>)

\* C2: a non-skipped entry that fails because its input file is missing,
\* its import raises or its export raises is counted as failed exactly once:
\* that step adds 1 to failed_count, leaves success_count (and skipped_count)
\* alone and moves on to the next entry.
C2_FailureCountedOnce ==
  [][ (idx < N /\ outcome[cur] = "pending" /\
       outcome'[cur] \in {"missing", "import_error", "export_error"})
      => /\ failed_count' = failed_count + 1
         /\ success_count' = success_count
         /\ skipped_count' = skipped_count
         /\ idx' = idx + 1 ]_vars

C2_Witness ==
  /\ \E i \in Entries : outcome[i] = "export_error"
  /\ \E i \in Entries : outcome[i] \in {"import_error", "missing"}
  /\ failed_count = 2

\* C3: when the input file of a non-skipped entry does not exist, the step
\* that handles the entry adds 1 to failed_count and leaves the scene alone,
\* and neither the import nor the export operator (nor clear_scene) is ever
\* invoked for that entry.
C3_MissingFileNoOperators ==
  /\ [](\A i \in Entries :
          (i \notin SkippedEntries /\ SCALE_FACTORS[i].filename \notin inputFiles)
          => /\ calls[i].clear_scene = 0
             /\ calls[i].import_glb = 0
             /\ calls[i].export_glb = 0)
  /\ [][ (pc = "loop" /\ idx < N /\ cur \notin SkippedEntries
          /\ SCALE_FACTORS[cur].filename \notin inputFiles)
         => /\ failed_count' = failed_count + 1
            /\ success_count' = success_count
            /\ scene' = scene
            /\ idx' = idx + 1 ]_vars

C3_Witness ==
  /\ \E i \in Entries : outcome[i] = "missing" /\ calls[i].rescale_prop = 1
  /\ failed_count >= 1
  /\ scene # <<>>

C5_NoCrossContamination ==
  /\ pc = "import" => scene = <<>>
  /\ InRescale => \A i \in 1..Len(scene) : scene[i].src = cur

C5_Witness ==
  /\ pc = "export"
  /\ idx >= 1
  /\ outcome[idx] \in {"exported", "export_error"}
  /\ Len(scene) >= 1

MaxOf(S) == CHOOSE x \in S : \A y \in S : y <= x
MinOf(S) == CHOOSE x \in S : \A y \in S : x <= y

\* max(transformed corners) - min(transformed corners) on axis k
Extent(obj, k) ==
  LET W == { worldify(obj, bound_box(obj)[c])[k] : c \in 1..8 }
  IN MaxOf(W) - MinOf(W)

\* C6: the measurement step reports, on each axis, max - min of the
\* transformed bounding-box corners of the first object; for an imported
\* unit cube scaled by f that is (f, f, f), i.e. 2f half-units per axis.
C6_ReportsExtents ==
  [][ pc = "measure"
      => LET o == scene[objects[1]] IN
           /\ dims' = << Extent(o, 1), Extent(o, 2), Extent(o, 3) >>
           /\ (o.orig = UnitCube.verts /\ o.rot = Identity3
               /\ o.loc = <<0, 0, 0>>)
              => dims' = << 2 * scale_factor, 2 * scale_factor,
                            2 * scale_factor >> ]_vars

\* C7: the measurement step is purely diagnostic: it leaves the scene and
\* the counters unchanged and control goes on to the export exactly as if
\* the step were not there.
C7_MeasureIsDiagnostic ==
  [][ pc = "measure"
      => /\ scene' = scene
         /\ UNCHANGED counters
         /\ pc' = "export" ]_vars

\* C8: at the moment of export the scene holds at least one object, and
\* every object has stored scale 1 on all axes and vertex coordinates equal
\* to the imported ones multiplied by the entry's scale factor.
C8_UniformRescale ==
  pc = "export"
  => /\ Len(scene) >= 1
     /\ \A i \in 1..Len(scene) :
          /\ scene[i].scale = <<1, 1, 1>>
          /\ Len(scene[i].verts) = Len(scene[i].orig)
          /\ \A v \in 1..Len(scene[i].orig) : \A k \in 1..3 :
               scene[i].verts[v][k] = scale_factor * scene[i].orig[v][k]

C8_Witness ==
  /\ pc = "export"
  /\ Len(scene) = 2
  /\ scene[2].orig # UnitCube.verts
  /\ scale_factor = 3

\* C9: for each entry the import and the export operator are invoked at
\* most once; the export is invoked only for an entry whose input file
\* exists, whose import completed without error and left at least one
\* object, and whose scale was applied; an entry whose import fails or
\* yields no objects gets no export call and is counted as failed.
C9_NoPartialExportNoRetry ==
  /\ \A i \in Entries :
       /\ calls[i].import_glb <= 1
       /\ calls[i].export_glb <= 1
       /\ calls[i].export_glb = 1
          => /\ SCALE_FACTORS[i].filename \in inputFiles
             /\ calls[i].import_glb = 1
             /\ calls[i].import_raised = 0
             /\ calls[i].transform_apply = 1
       /\ (calls[i].import_raised > 0 \/ outcome[i] = "no_objects")
          => /\ calls[i].export_glb = 0
             /\ outcome[i] \in {"import_error", "no_objects"}
  /\ pc = "export" => Len(scene) >= 1
  /\ failed_count >=
       Cardinality({ i \in Entries :
                       outcome[i] \in {"import_error", "no_objects"} })

C9_Witness ==
  /\ \E i \in Entries : outcome[i] = "no_objects"
  /\ \E i \in Entries : outcome[i] = "exported" /\ calls[i].export_glb = 1

\* C10: success_count + failed_count + skipped_count equals the number of
\* entries handled so far; entries are handled once each in configuration
\* order and each adds one to exactly one counter; so the summary's counts
\* add up to the number of entries, and success_count is the number of
\* entries whose export completed without error.
C10_CounterAccounting ==
  /\ success_count + failed_count + skipped_count = idx
  /\ \A i \in Entries : (i <= idx) <=> (outcome[i] \in Failures \cup {"exported", "skipped"})
  /\ \A i \in Entries : i > cur => calls[i] = NoCalls
  /\ success_count = Cardinality({ i \in Entries : outcome[i] = "exported" })
  /\ skipped_count = Cardinality({ i \in Entries : outcome[i] = "skipped" })
  /\ failed_count = Cardinality({ i \in Entries : outcome[i] \in Failures })
  /\ pc = "done"
     => /\ summary = << success_count, failed_count, skipped_count >>
        /\ summary[1] + summary[2] + summary[3] = N

C10_Witness ==
  /\ pc = "done"
  /\ N = 2
  /\ success_count = 1
  /\ failed_count + skipped_count = 1

====
